---- MODULE Spec2Model ----
(***************************************************************************)
(* Model of `fast` (src/src/main.rs): a project bookmark tool.  One run of *)
(* the program is one process: main parses the arguments, reads the store, *)
(* and dispatches to a command.  The process blocks only in user_input;    *)
(* every action below runs the code from one blocking read (or from        *)
(* process start) to the next blocking read (or to process exit).          *)
(*                                                                         *)
(* Strings are sequences of one-character strings, so that substring       *)
(* search and trimming are computed, not assumed.  The file system and the *)
(* environment (home directory, current directory, store file, spawned     *)
(* programs) are assumed to work; reading standard input may fail.         *)
(***************************************************************************)
EXTENDS Naturals, Sequences, FiniteSets, TLC

(* ------------------------------ bounds -------------------------------- *)

\* longest word typed on the command line or at a prompt
MaxLen == 2

\* most projects the store holds (save is not taken beyond it)
MaxProjects == 3

\* most nested select_project calls blocked on input at once
MaxDepth == 3

(* ------------------------------ inputs -------------------------------- *)

\* two letters that differ only in case
Chars == {"a", "A"}

SP == " "

NL == "\n"

Whitespace == {SP, NL}

Words == UNION {[1..n -> Chars] : n \in 0..MaxLen}

\* what read_line may leave in the buffer: a word, then nothing (end of
\* input), a newline, or blanks and a newline
LineEnds == {<<>>, <<NL>>, <<SP, NL>>}

Lines == {w \o e : w \in Words, e \in LineEnds}

\* answers to a (y/N) question
ConfirmLines == {<<"y", NL>>, <<"y">>, <<"y", SP, NL>>, <<"n", NL>>, <<"Y", NL>>, <<NL>>, <<>>}

\* directories the process may be started in
Paths == {"/p", "/q"}

Prog == <<"f">>

ShortFlags == {<<"-", c>> : c \in {"h", "s", "d", "v", "o", "e", "x"}}

LongFlags == {<<"-", "-", "r", "e", "s", "e", "t">>, <<"-", "-", "s", "a", "v", "e">>}

FlagArgs == ShortFlags \cup LongFlags

Argvs ==
    {<<Prog>>}
      \cup {<<Prog, w>> : w \in Words}
      \cup {<<Prog, f>> : f \in FlagArgs}
      \cup {<<Prog, f, w>> : f \in FlagArgs, w \in Words}
      \cup {<<Prog, <<"-", "s">>, <<"a">>, <<"A">>>>}

(* ------------------------------ strings ------------------------------- *)

EmptyString == <<>>

is_empty(s) == Len(s) = 0

starts_with(s, c) == Len(s) > 0 /\ s[1] = c

to_lower(s) == [i \in 1..Len(s) |-> IF s[i] = "A" THEN "a" ELSE s[i]]

\* a search that ignores case
contains_ignore_case(s, pat) ==
    \E i \in 0..Len(s) :
      /\ i + Len(pat) <= Len(s)
      /\ SubSeq(to_lower(s), i + 1, i + Len(pat)) = to_lower(pat)

\* str::contains: pat occurs in s at some offset
contains(s, pat) ==
    \E i \in 0..Len(s) : i + Len(pat) <= Len(s) /\ SubSeq(s, i + 1, i + Len(pat)) = pat

RECURSIVE trim_end(_)
trim_end(s) ==
    IF Len(s) > 0 /\ s[Len(s)] \in Whitespace
    THEN trim_end(SubSeq(s, 1, Len(s) - 1))
    ELSE s

(* ------------------------------ Projects ------------------------------ *)

\* HashMap<String, PathBuf>: a function from its keys to their paths
NewProjects == [k \in {} |-> ""]

keys(projects) == DOMAIN projects

len(projects) == Cardinality(DOMAIN projects)

contains_key(projects, k) == k \in DOMAIN projects

insert(projects, k, v) == [x \in DOMAIN projects \cup {k} |-> IF x = k THEN v ELSE projects[x]]

remove(projects, k) == [x \in DOMAIN projects \ {k} |-> projects[x]]

\* the clone of line 269 with the retain of line 270 left out
retain_nothing_dropped(projects, matches) == projects

\* HashMap::retain with the predicate of line 270
retain(projects, matches) == [x \in {k \in DOMAIN projects : k \in matches} |-> projects[x]]

NO_PROJECTS_ERROR == "No saved projects found"

(* ------------------------------- store -------------------------------- *)

\* the serialized form is the JSON object's set of members
to_string(projects) == {<<k, projects[k]>> : k \in DOMAIN projects}

from_str(serialized) ==
    [k \in {m[1] : m \in serialized} |-> (CHOOSE m \in serialized : m[1] = k)[2]]

NoStore == [exists |-> FALSE, content |-> {}]

read_projects(st) == IF ~st.exists THEN NewProjects ELSE from_str(st.content)

write_projects(projects) == [exists |-> TRUE, content |-> to_string(projects)]

(* ----------------------------- parse_args ----------------------------- *)

FlagCommand(a) ==
    CASE a \in {<<"-", "h">>, <<"-", "-", "h", "e", "l", "p">>} -> "Help"
      [] a \in {<<"-", "s">>, <<"-", "-", "s", "a", "v", "e">>} -> "Save"
      [] a \in {<<"-", "d">>, <<"-", "-", "d", "e", "l", "e", "t", "e">>} -> "Delete"
      [] a \in {<<"-", "v">>, <<"-", "-", "v", "i", "e", "w">>} -> "View"
      [] a \in {<<"-", "o">>, <<"-", "-", "o", "p", "e", "n">>} -> "Open"
      [] a \in {<<"-", "e">>, <<"-", "-", "e", "d", "i", "t">>} -> "Edit"
      [] a = <<"-", "-", "r", "e", "s", "e", "t">> -> "Reset"
      [] OTHER -> "Unrecognized"

\* args[1] is the program name (args[0] in the source)
parse_args(args) ==
    IF Len(args) > 3
    THEN [ok |-> FALSE, command |-> "none", query |-> EmptyString,
          error |-> "Too many arguments provided"]
    ELSE LET has_flag == Len(args) > 1 /\ starts_with(args[2], "-")
             command == IF has_flag THEN FlagCommand(args[2]) ELSE "Load"
             query_index == IF has_flag THEN 3 ELSE 2
             query == IF query_index <= Len(args) THEN args[query_index] ELSE EmptyString
         IN  IF command = "Unrecognized"
             THEN [ok |-> FALSE, command |-> "none", query |-> EmptyString,
                   error |-> "Unrecognized argument provided"]
             ELSE [ok |-> TRUE, command |-> command, query |-> query, error |-> ""]

(* --------------------------- select_project --------------------------- *)

Ok(name, path) == [tag |-> "Ok", name |-> name, path |-> path, err |-> ""]

Err(msg) == [tag |-> "Err", name |-> EmptyString, path |-> "", err |-> msg]

Panic(msg) == [tag |-> "Panic", name |-> EmptyString, path |-> "", err |-> msg]

NoResult == [tag |-> "none", name |-> EmptyString, path |-> "", err |-> ""]

\* the heading and the rows of one listing (the order and the padding of
\* the rows are not modelled)
print_projects(projects, prompt) ==
    IF prompt = ""
    THEN LET count == len(projects)
             suffix == IF count # 1 THEN "s" ELSE ""
         IN  [heading |-> "found", count |-> count, suffix |-> suffix, text |-> "",
              rows |-> projects]
    ELSE [heading |-> "prompt", count |-> 0, suffix |-> "", text |-> prompt,
          rows |-> projects]

NoListing == [heading |-> "none", count |-> 0, suffix |-> "", text |-> "", rows |-> NewProjects]

NoFrame == [kind |-> "none", projects |-> NewProjects, callee |-> NewProjects]

Return(result) == [tag |-> "return", result |-> result, listing |-> NoListing, frame |-> NoFrame]

\* the call has printed `listing` and waits in user_input; `frame` keeps its
\* own mapping and the mapping it will pass to the nested call
Block(listing, kind, projects, callee) ==
    [tag |-> "block", result |-> NoResult, listing |-> listing,
     frame |-> [kind |-> kind, projects |-> projects, callee |-> callee]]

\* lines 251-254: the keys that contain the query
matching(query, projects) == {k \in keys(projects) : contains(k, query)}

\* the exact match honoured only when no other key contains the query, as
\* if the substring search came first
get_key_value_after_search(projects, key) ==
    IF contains_key(projects, key) /\ Cardinality(matching(key, projects)) = 1
    THEN Ok(key, projects[key])
    ELSE NoResult

\* line 246: the entry of the key equal to the query, if there is one
get_key_value(projects, key) ==
    IF contains_key(projects, key) THEN Ok(key, projects[key]) ELSE NoResult

\* lines 262-265: the only match and its path
only_match(projects, matches) ==
    LET p == CHOOSE k \in matches : TRUE
    IN  Ok(p, projects[p])

\* the ambiguous branch printing the count whatever the caller's prompt
count_heading(prompt) == ""

\* the heading the ambiguous branch passes to print_projects (line 272)
ambiguous_heading(prompt) == prompt

\* lines 245-279 up to the read: the query is not empty, nor is the mapping
match_project(query, projects, prompt) ==
    IF get_key_value(projects, query).tag = "Ok"
    THEN Return(get_key_value(projects, query))
    ELSE LET matches == matching(query, projects)
         IN  CASE Cardinality(matches) = 0 -> Return(Err("No matching project found"))
               [] Cardinality(matches) = 1 -> Return(only_match(projects, matches))
               [] OTHER ->
                    LET subset == retain(projects, matches)
                    IN  Block(print_projects(subset, ambiguous_heading(prompt)), "ambiguous",
                              projects, subset)

\* the empty query served before the empty mapping is noticed
select_project_prompt_first(query, projects, prompt) ==
    IF is_empty(query)
    THEN Block(print_projects(projects, prompt), "empty_query", projects, projects)
    ELSE IF len(projects) = 0
    THEN Return(Err(NO_PROJECTS_ERROR))
    ELSE match_project(query, projects, prompt)

\* select_project from its entry to its return or to its user_input
select_project(query, projects, prompt) ==
    IF len(projects) = 0
    THEN Return(Err(NO_PROJECTS_ERROR))
    ELSE IF is_empty(query)
    THEN Block(print_projects(projects, prompt), "empty_query", projects, projects)
    ELSE match_project(query, projects, prompt)

\* the first entry of the mapping returned in place of the resolved key's
relookup_first_entry(projects, r) ==
    LET k == CHOOSE x \in keys(projects) : TRUE
    IN  Ok(r.name, projects[k])

\* line 277: the resolved key is looked up again in the caller's own mapping
relookup(projects, r) ==
    IF contains_key(projects, r.name)
    THEN Ok(r.name, projects[r.name])
    ELSE Panic("unwrap on None")

\* a failed nested call answered with the first candidate, not passed on
UnwindWithFallback(frames, r) ==
    IF frames # <<>> /\ r.tag = "Err"
    THEN LET f == frames[Len(frames)]
             k == CHOOSE x \in keys(f.projects) : TRUE
         IN  Ok(k, f.projects[k])
    ELSE r

\* the nested call has returned r: every blocked call returns in turn
RECURSIVE Unwind(_, _)
Unwind(frames, r) ==
    IF frames = <<>> \/ r.tag = "Panic"
    THEN r
    ELSE LET f == frames[Len(frames)]
             rest == SubSeq(frames, 1, Len(frames) - 1)
         IN  IF f.kind = "empty_query" \/ r.tag = "Err"
             THEN Unwind(rest, r)
             ELSE Unwind(rest, relookup(f.projects, r))

(* ------------------------------- state -------------------------------- *)

VARIABLES
    store,      \* the store file ~/.fstore
    pc,         \* "shell": no process; "exited": it has ended; else where it waits
    command,    \* the command of the current (or last) process
    query,      \* its command-line query
    prompt,     \* the prompt its command passes to select_project
    projects,   \* its in-memory mapping
    given,      \* the mapping passed to its outermost select_project call
    project,    \* save_project's local `project`
    stack,      \* the select_project calls blocked in user_input, outermost first
    out,        \* the listings select_project has printed, oldest first
    reads,      \* the lines select_project has read
    selected,   \* what the outermost select_project call returned
    last,       \* the latest select_project call: its arguments and what it did
    answer,     \* the latest line user_input returned outside select_project
    exit        \* how the process ended and what it did to the outside

vars == <<store, pc, command, query, prompt, projects, given, project, stack, out, reads,
          selected, last, answer, exit>>

NotCalled == [tag |-> "none", result |-> NoResult, listing |-> NoListing, frame |-> NoFrame]

NoCall == [query |-> EmptyString, projects |-> NewProjects, prompt |-> "", call |-> NotCalled]

Call(q, projs, text) ==
    [query |-> q, projects |-> projs, prompt |-> text, call |-> select_project(q, projs, text)]

NoAnswer == <<"-">>

Running == [status |-> "running", msg |-> "", effect |-> "none", path |-> ""]

ExitOk(effect, path) == [status |-> "ok", msg |-> "", effect |-> effect, path |-> path]

ExitErr(msg) == [status |-> "err", msg |-> msg, effect |-> "none", path |-> ""]

ExitPanic(msg) == [status |-> "panic", msg |-> msg, effect |-> "none", path |-> ""]

Init ==
    /\ store = NoStore
    /\ pc = "shell"
    /\ command = "none"
    /\ query = EmptyString
    /\ prompt = ""
    /\ projects = NewProjects
    /\ given = NewProjects
    /\ project = EmptyString
    /\ stack = <<>>
    /\ out = <<>>
    /\ reads = 0
    /\ selected = NoResult
    /\ last = NoCall
    /\ answer = NoAnswer
    /\ exit = Running

\* the prompt each command passes to select_project
CallerPrompt(cmd) ==
    CASE cmd = "Load" -> "Which project should be loaded?"
      [] cmd = "Delete" -> "Which project should be deleted?"
      [] cmd = "View" -> "Which project should open in the file explorer?"
      [] cmd = "Open" -> "Which project would you like to open?"
      [] cmd = "Edit" -> "Which project should be opened with vi?"
      [] OTHER -> ""

(* ------------------- commands, after select_project ------------------- *)

\* load_project once select_project has returned Ok
load_project(r) ==
    /\ \E dir \in Paths :
         exit' = IF r.path = dir
                 THEN ExitErr("Already in project directory")
                 ELSE ExitOk("cd", r.path)
    /\ pc' = "exited"

\* delete_project once select_project has returned Ok: it asks to confirm
delete_project(r) ==
    /\ pc' = "delete_confirm"
    /\ exit' = Running

view_project(r) ==
    /\ exit' = ExitOk("open_native", r.path)
    /\ pc' = "exited"

\* open_project: what the project directory holds decides
open_project(r) ==
    /\ \E found \in {"start", "xcworkspace", "xcodeproj", "nothing"} :
         exit' = IF found = "nothing"
                 THEN ExitErr("No environment or system app to open for project")
                 ELSE ExitOk(found, r.path)
    /\ pc' = "exited"

edit_project(r) ==
    /\ exit' = ExitOk("editor", r.path)
    /\ pc' = "exited"

\* the outermost select_project call has returned r to the command `cmd`
SelectReturned(cmd, r) ==
    CASE r.tag = "Panic" -> pc' = "exited" /\ exit' = ExitPanic(r.err)
      [] r.tag = "Err" -> pc' = "exited" /\ exit' = ExitErr(r.err)
      [] r.tag = "Ok" /\ cmd = "Load" -> load_project(r)
      [] r.tag = "Ok" /\ cmd = "Delete" -> delete_project(r)
      [] r.tag = "Ok" /\ cmd = "View" -> view_project(r)
      [] r.tag = "Ok" /\ cmd = "Open" -> open_project(r)
      [] r.tag = "Ok" /\ cmd = "Edit" -> edit_project(r)

\* one select_project call, entered under the blocked calls `frames` with
\* the listings `log` printed so far, has run to its return or its read
SelectStep(cmd, c, frames, log) ==
    /\ last' = c
    /\ IF c.call.tag = "block"
       THEN /\ pc' = "select_input"
            /\ stack' = Append(frames, c.call.frame)
            /\ out' = Append(log, [branch |-> c.call.frame.kind, listing |-> c.call.listing])
            /\ selected' = NoResult
            /\ exit' = Running
       ELSE LET r == Unwind(frames, c.call.result)
            IN  /\ stack' = <<>>
                /\ out' = log
                /\ selected' = r
                /\ SelectReturned(cmd, r)

(* ------------------------------- main --------------------------------- *)

\* a command that resolves a project first
StartSelect(cmd, q, loaded) ==
    /\ prompt' = CallerPrompt(cmd)
    /\ given' = loaded
    /\ project' = EmptyString
    /\ SelectStep(cmd, Call(q, loaded, CallerPrompt(cmd)), <<>>, <<>>)
    /\ answer' = NoAnswer
    /\ UNCHANGED store

\* the process ends before it resolves anything
StartExit(e) ==
    /\ pc' = "exited"
    /\ exit' = e
    /\ prompt' = ""
    /\ given' = NewProjects
    /\ project' = EmptyString
    /\ stack' = <<>>
    /\ out' = <<>>
    /\ selected' = NoResult
    /\ last' = NoCall
    /\ answer' = NoAnswer
    /\ UNCHANGED store

\* main up to the dispatch: parse_args has returned p
Begin(p) ==
    /\ command' = p.command
    /\ query' = p.query
    /\ reads' = 0

\* parse_args fails: main returns before it reads the store
UsageError ==
    /\ pc = "shell"
    /\ \E args \in Argvs :
      LET p == parse_args(args)
      IN  /\ ~p.ok
          /\ Begin(p)
          /\ projects' = NewProjects
          /\ StartExit(ExitErr(p.error))

Help ==
    /\ pc = "shell"
    /\ \E args \in Argvs :
      LET p == parse_args(args)
      IN  /\ p.ok /\ p.command = "Help"
          /\ Begin(p)
          /\ projects' = read_projects(store)
          /\ StartExit(ExitOk("help", ""))

\* load, delete, view and open call select_project first
Select(cmd) ==
    \E args \in Argvs :
      LET p == parse_args(args)
      IN  /\ p.ok /\ p.command = cmd
          /\ Begin(p)
          /\ projects' = read_projects(store)
          /\ StartSelect(cmd, p.query, read_projects(store))

Load ==
    /\ pc = "shell"
    /\ Select("Load")

Delete ==
    /\ pc = "shell"
    /\ Select("Delete")

View ==
    /\ pc = "shell"
    /\ Select("View")

Open ==
    /\ pc = "shell"
    /\ Select("Open")

\* edit_project needs $EDITOR before it resolves anything
Edit ==
    /\ pc = "shell"
    /\ \E args \in Argvs, editor \in {"unset", "vi"} :
      LET p == parse_args(args)
      IN  /\ p.ok /\ p.command = "Edit"
          /\ Begin(p)
          /\ projects' = read_projects(store)
          /\ IF editor = "unset"
             THEN StartExit(ExitErr("No editor configured"))
             ELSE StartSelect("Edit", p.query, read_projects(store))

(* ---------------------------- save_project ---------------------------- *)

\* lines 135-138: insert under the current directory and write the store
SaveInsert(cur, name) ==
    /\ contains_key(cur, name) \/ len(cur) < MaxProjects
    /\ \E dir \in Paths :
         /\ projects' = insert(cur, name, dir)
         /\ store' = write_projects(insert(cur, name, dir))
         /\ exit' = ExitOk("saved", dir)
    /\ pc' = "exited"

\* lines 127-139 with the name known: an existing name asks to confirm
SaveNamed(cur, name) ==
    /\ project' = name
    /\ IF contains_key(cur, name)
       THEN /\ pc' = "save_confirm"
            /\ projects' = cur
            /\ exit' = Running
            /\ UNCHANGED store
       ELSE SaveInsert(cur, name)

Save ==
    /\ pc = "shell"
    /\ \E args \in Argvs :
      LET p == parse_args(args)
          loaded == read_projects(store)
      IN  /\ p.ok /\ p.command = "Save"
          /\ Begin(p)
          /\ prompt' = ""
          /\ given' = NewProjects
          /\ stack' = <<>>
          /\ out' = <<>>
          /\ selected' = NoResult
          /\ last' = NoCall
          /\ answer' = NoAnswer
          /\ IF is_empty(p.query)
             THEN /\ pc' = "save_name"
                  /\ project' = EmptyString
                  /\ projects' = loaded
                  /\ exit' = Running
                  /\ UNCHANGED store
             ELSE SaveNamed(loaded, p.query)

\* the answer to "Enter new project name: "
SaveName ==
    /\ pc = "save_name"
    /\ \E line \in Lines :
         /\ answer' = trim_end(line)
         /\ SaveNamed(projects, trim_end(line))
    /\ UNCHANGED <<command, query, prompt, given, stack, out, reads, selected, last>>

\* the answer to "... already exists. Overwrite (y/N)? "
SaveConfirm ==
    /\ pc = "save_confirm"
    /\ \E line \in ConfirmLines :
         /\ answer' = trim_end(line)
         /\ IF trim_end(line) = <<"y">>
            THEN SaveInsert(projects, project)
            ELSE /\ pc' = "exited"
                 /\ exit' = ExitOk("none", "")
                 /\ UNCHANGED <<store, projects>>
    /\ UNCHANGED <<command, query, prompt, given, project, stack, out, reads, selected, last>>

(* --------------------------- reset_projects --------------------------- *)

Reset ==
    /\ pc = "shell"
    /\ \E args \in Argvs :
      LET p == parse_args(args)
          loaded == read_projects(store)
      IN  /\ p.ok /\ p.command = "Reset"
          /\ Begin(p)
          /\ projects' = loaded
          /\ IF len(loaded) = 0
             THEN StartExit(ExitErr(NO_PROJECTS_ERROR))
             ELSE /\ pc' = "reset_confirm"
                  /\ exit' = Running
                  /\ prompt' = ""
                  /\ given' = NewProjects
                  /\ project' = EmptyString
                  /\ stack' = <<>>
                  /\ out' = <<>>
                  /\ selected' = NoResult
                  /\ last' = NoCall
                  /\ answer' = NoAnswer
                  /\ UNCHANGED store

\* the answer to "Remove N saved projects (y/N)? "
ResetConfirm ==
    /\ pc = "reset_confirm"
    /\ \E line \in ConfirmLines :
         /\ answer' = trim_end(line)
         /\ IF trim_end(line) = <<"y">>
            THEN /\ store' = NoStore
                 /\ exit' = ExitOk("reset", "")
            ELSE /\ exit' = ExitOk("none", "")
                 /\ UNCHANGED store
    /\ pc' = "exited"
    /\ UNCHANGED <<command, query, prompt, projects, given, project, stack, out, reads,
                   selected, last>>

(* --------------------------- delete_project --------------------------- *)

\* the project removed whatever the answer is
DeleteConfirmUnchecked ==
    /\ pc = "delete_confirm"
    /\ \E line \in ConfirmLines :
         /\ answer' = trim_end(line)
         /\ projects' = remove(projects, selected.name)
         /\ store' = write_projects(remove(projects, selected.name))
         /\ exit' = ExitOk("deleted", "")
    /\ pc' = "exited"
    /\ UNCHANGED <<command, query, prompt, given, project, stack, out, reads, selected, last>>

\* the answer to "Delete ... (y/N)? "
DeleteConfirm ==
    /\ pc = "delete_confirm"
    /\ \E line \in ConfirmLines :
         /\ answer' = trim_end(line)
         /\ IF trim_end(line) = <<"y">>
            THEN /\ projects' = remove(projects, selected.name)
                 /\ store' = write_projects(remove(projects, selected.name))
                 /\ exit' = ExitOk("deleted", "")
            ELSE /\ exit' = ExitOk("none", "")
                 /\ UNCHANGED <<store, projects>>
    /\ pc' = "exited"
    /\ UNCHANGED <<command, query, prompt, given, project, stack, out, reads, selected, last>>

(* ----------------------------- user_input ----------------------------- *)

\* the answer to "Enter project: ": the innermost blocked call passes it to
\* a nested select_project with an empty prompt
SelectInput ==
    /\ pc = "select_input"
    /\ Len(stack) <= MaxDepth
    /\ \E line \in Lines :
         LET input == trim_end(line)
             top == stack[Len(stack)]
         IN  SelectStep(command, Call(input, top.callee, ""), stack, out)
    /\ reads' = reads + 1
    /\ UNCHANGED <<store, command, query, prompt, projects, given, project, answer>>

\* the process is gone: only the store file outlives it
ProcessExit ==
    /\ pc = "exited"
    /\ pc' = "shell"
    /\ command' = "none"
    /\ query' = EmptyString
    /\ prompt' = ""
    /\ projects' = NewProjects
    /\ given' = NewProjects
    /\ project' = EmptyString
    /\ stack' = <<>>
    /\ out' = <<>>
    /\ reads' = 0
    /\ selected' = NoResult
    /\ last' = NoCall
    /\ answer' = NoAnswer
    /\ exit' = Running
    /\ UNCHANGED store

\* read_line fails and the failure is handed back as an error value
ReadFailsReturnsError ==
    /\ pc \in {"select_input", "save_name", "save_confirm", "delete_confirm", "reset_confirm"}
    /\ pc' = "exited"
    /\ exit' = ExitErr("Read user input")
    /\ selected' = IF pc = "select_input" THEN Err("Read user input") ELSE selected
    /\ stack' = <<>>
    /\ UNCHANGED <<store, command, query, prompt, projects, given, project, out, reads,
                   last, answer>>

\* read_line fails: `expect` panics and the process dies where it waits
ReadFails ==
    /\ pc \in {"select_input", "save_name", "save_confirm", "delete_confirm", "reset_confirm"}
    /\ pc' = "exited"
    /\ exit' = ExitPanic("Read user input")
    /\ stack' = <<>>
    /\ UNCHANGED <<store, command, query, prompt, projects, given, project, out, reads,
                   selected, last, answer>>

Next ==
    \/ UsageError
    \/ Help
    \/ Load
    \/ Save
    \/ Delete
    \/ View
    \/ Open
    \/ Edit
    \/ Reset
    \/ SaveName
    \/ SaveConfirm
    \/ ResetConfirm
    \/ DeleteConfirm
    \/ SelectInput
    \/ ReadFails
    \/ ProcessExit

Spec == Init /\ [][Next]_vars

(* ------------------------------ properties ---------------------------- *)

\* pat occurs in s, letter for letter: s is some prefix, then pat, then a rest
IsSubstring(pat, s) ==
    \E i \in 1..(Len(s) + 1), j \in 0..Len(s) : j + 1 >= i /\ SubSeq(s, i, j) = pat

\* the keys of the mapping p in which q occurs
Containing(q, p) == {k \in DOMAIN p : IsSubstring(q, k)}

\* a select_project call has been made in this process
Called == last.call.tag # "none"

NoMatchError == "No matching project found"

ReadError == "Read user input"

\* C1: a non-empty query equal to a key of a non-empty mapping makes
\* select_project return that key with its own path, with no listing printed
\* and no line read by that call, however many other keys contain the query.
C1_ExactMatchWins ==
    (Called /\ ~is_empty(last.query) /\ last.query \in DOMAIN last.projects) =>
        /\ last.call = Return(Ok(last.query, last.projects[last.query]))
        /\ selected = Ok(last.query, last.projects[last.query])
        /\ pc # "select_input"
        /\ Len(out) = reads
        /\ (last.projects = given /\ last.query = query) => (out = <<>> /\ reads = 0)

\* the query is a key, two more keys contain it, and the key was returned
C1_Witness ==
    /\ Called
    /\ ~is_empty(last.query)
    /\ last.query \in DOMAIN last.projects
    /\ Cardinality(Containing(last.query, last.projects)) = 3
    /\ selected.tag = "Ok"
    /\ reads = 0

\* C2: with an empty mapping select_project fails with NoProjects for every
\* query, empty or not, having printed no listing and read no line.
C2_EmptyMappingFails ==
    (Called /\ DOMAIN last.projects = {}) =>
        /\ last.call = Return(Err(NO_PROJECTS_ERROR))
        /\ selected = Err(NO_PROJECTS_ERROR)
        /\ out = <<>>
        /\ reads = 0
        /\ stack = <<>>
        /\ pc = "exited"
        /\ exit = ExitErr(NO_PROJECTS_ERROR)

\* the mapping and the query are both empty and the call has failed
C2_Witness ==
    /\ Called
    /\ DOMAIN last.projects = {}
    /\ is_empty(last.query)
    /\ selected.tag = "Err"

\* C3 as stated: every listing of the ambiguous branch is headed by the
\* count line, never by the caller's prompt, the outermost call included.
C3_AlwaysCountHeading ==
    \A i \in DOMAIN out :
        out[i].branch = "ambiguous" =>
            /\ out[i].listing.heading = "found"
            /\ out[i].listing.text = ""

\* C3 as the code has it: a listing of the ambiguous branch is headed by the
\* count line "N projects found" when a nested call prints it (a line typed
\* at "Enter project: " was ambiguous), and by the caller's prompt when the
\* outermost call prints it (the command-line query was ambiguous).
C3_HeadingFollowsPrompt ==
    \A i \in DOMAIN out :
        out[i].branch = "ambiguous" =>
            IF i = 1
            THEN /\ out[i].listing.heading = "prompt"
                 /\ out[i].listing.text = CallerPrompt(command)
                 /\ out[i].listing.text # ""
            ELSE /\ out[i].listing.heading = "found"
                 /\ out[i].listing.text = ""
                 /\ out[i].listing.count = Cardinality(DOMAIN out[i].listing.rows)
                 /\ out[i].listing.suffix = "s"

\* the command-line query was ambiguous, and so was the line typed next
C3_Witness ==
    /\ Len(out) >= 2
    /\ out[1].branch = "ambiguous"
    /\ out[2].branch = "ambiguous"
    /\ out[2].listing.rows # out[1].listing.rows

\* C4: whenever select_project succeeds, the name returned is a key of the
\* mapping given to the outermost call and the path is that mapping's path
\* for the name; the lookup of the resolved key never fails.
C4_ResultFromGivenMapping ==
    /\ selected.tag # "Panic"
    /\ selected.tag = "Ok" =>
          /\ selected.name \in DOMAIN given
          /\ selected.path = given[selected.name]

\* success after an empty query and two narrowing levels, in a mapping whose
\* paths differ
C4_Witness ==
    /\ selected.tag = "Ok"
    /\ Len(out) = 3
    /\ out[1].branch = "empty_query"
    /\ out[2].branch = "ambiguous"
    /\ out[3].branch = "ambiguous"
    /\ out[3].listing.rows # out[2].listing.rows
    /\ \E k \in DOMAIN given : given[k] # selected.path

\* C5: when a non-empty query that is no key occurs in two or more keys of
\* the mapping searched, the sub-mapping listed and passed on holds exactly
\* the entries whose key contains the query, paths unchanged; the candidates
\* of each level are a non-empty subset of those of the level before.
C5_SubMappingIsTheMatches ==
    /\ (/\ Called
        /\ ~is_empty(last.query)
        /\ last.query \notin DOMAIN last.projects
        /\ Cardinality(Containing(last.query, last.projects)) >= 2) =>
           /\ last.call.tag = "block"
           /\ last.call.frame.kind = "ambiguous"
           /\ last.call.frame.projects = last.projects
           /\ DOMAIN last.call.frame.callee = Containing(last.query, last.projects)
           /\ \A k \in DOMAIN last.call.frame.callee :
                 last.call.frame.callee[k] = last.projects[k]
           /\ last.call.listing.rows = last.call.frame.callee
    /\ \A i \in DOMAIN stack :
           /\ DOMAIN stack[i].callee # {}
           /\ DOMAIN stack[i].callee \subseteq DOMAIN stack[i].projects
           /\ \A k \in DOMAIN stack[i].callee : stack[i].callee[k] = stack[i].projects[k]
           /\ stack[i].projects = IF i = 1 THEN given ELSE stack[i - 1].callee
    /\ (pc = "select_input" /\ stack # <<>>) =>
           /\ last.call.frame = stack[Len(stack)]
           /\ out[Len(out)].listing.rows = stack[Len(stack)].callee

\* two of three projects are listed, and the call waits for a line
C5_Witness ==
    /\ pc = "select_input"
    /\ last.call.frame.kind = "ambiguous"
    /\ Cardinality(DOMAIN last.projects) = 3
    /\ Cardinality(DOMAIN last.call.frame.callee) = 2
    /\ reads >= 1

\* C6: for a non-empty query equal to no key, select_project returns a pair
\* without listing or reading exactly when one key contains the query, case
\* respected, and the pair is that key's; with two or more such keys nothing
\* is returned before a further line is read.
C6_OnlyASingleMatchReturns ==
    (Called /\ ~is_empty(last.query) /\ last.query \notin DOMAIN last.projects) =>
        LET m == Containing(last.query, last.projects)
        IN  /\ (last.call.tag = "return" /\ last.call.result.tag = "Ok") <=> Cardinality(m) = 1
            /\ Cardinality(m) = 1 =>
                  \A k \in m :
                      /\ last.call = Return(Ok(k, last.projects[k]))
                      /\ selected = Ok(k, last.projects[k])
                      /\ pc # "select_input"
                      /\ Len(out) = reads
            /\ Cardinality(m) >= 2 =>
                  /\ last.call.tag = "block"
                  /\ selected = NoResult
                  /\ Len(out) = reads + 1
                  /\ pc = "select_input" \/ exit = ExitPanic(ReadError)

\* one key contains the query, another contains it in the other case only
C6_Witness ==
    /\ Called
    /\ ~is_empty(last.query)
    /\ last.query \notin DOMAIN last.projects
    /\ Cardinality(Containing(last.query, last.projects)) = 1
    /\ Cardinality({k \in DOMAIN last.projects : contains_ignore_case(k, last.query)}) >= 2
    /\ selected.tag = "Ok"

\* C7 as stated: a non-empty query that equals no key and occurs in no key
\* of the mapping searched fails the whole resolution with NoMatch.
C7_NoMatchFails ==
    (Called /\ ~is_empty(last.query) /\ Containing(last.query, last.projects) = {}) =>
        /\ last.call = Return(Err(NoMatchError))
        /\ selected = Err(NoMatchError)

\* C7 for a mapping that is not empty: the call and the whole resolution
\* fail with NoMatch, no further listing is printed, no line read, and the
\* process ends.
C7_NoMatchFailsNonEmpty ==
    (/\ Called
     /\ DOMAIN last.projects # {}
     /\ ~is_empty(last.query)
     /\ Containing(last.query, last.projects) = {}) =>
        /\ last.call = Return(Err(NoMatchError))
        /\ selected = Err(NoMatchError)
        /\ stack = <<>>
        /\ Len(out) = reads
        /\ pc = "exited"
        /\ exit = ExitErr(NoMatchError)

\* a line typed at the second prompt matches nothing in the narrowed mapping
\* though it does match in the mapping given
C7_Witness ==
    /\ Called
    /\ reads = 2
    /\ out[2].branch = "ambiguous"
    /\ ~is_empty(last.query)
    /\ Containing(last.query, last.projects) = {}
    /\ Containing(last.query, given) # {}
    /\ selected.tag = "Err"

\* the process has died of a failed read while select_project waited
ReadFailedInSelect == exit.msg = ReadError /\ last.call.tag = "block"

\* C8 as stated: a failed read during resolution comes back to the caller
\* of select_project as an error value.
C8_ReadFailureReturned ==
    ReadFailedInSelect => (selected.tag = "Err" /\ exit.status = "err")

\* C8 as the code has it: a failed read during resolution ends the
\* resolution without retry by a panic that ends the process; select_project
\* returns nothing to its caller, the failure is not taken for an entered
\* line, and the store is not written.
C8_ReadFailurePanics ==
    ReadFailedInSelect =>
        /\ exit = ExitPanic(ReadError)
        /\ pc = "exited"
        /\ selected = NoResult
        /\ stack = <<>>
        /\ Len(out) = reads + 1
        /\ store.exists /\ read_projects(store) = given

\* the read failed at a disambiguation prompt
C8_Witness ==
    /\ ReadFailedInSelect
    /\ last.call.frame.kind = "ambiguous"
    /\ reads = 1

\* C9: no step of a command that resolves a project changes the mapping or
\* the store, whether select_project waits, fails or succeeds, but one: in
\* the delete command, once select_project has succeeded and the
\* confirmation is answered "y", exactly the resolved name is removed and
\* the store is written.
C9_DeleteWritesOnlyOnConfirm ==
    [][command' \in {"Load", "Delete", "View", "Open", "Edit"} =>
          \/ /\ store' = store
             /\ projects' = IF pc = "shell" THEN read_projects(store) ELSE projects
             /\ exit'.effect # "deleted"
          \/ /\ command = "Delete"
             /\ pc = "delete_confirm"
             /\ selected.tag = "Ok"
             /\ selected.name \in DOMAIN projects
             /\ answer' = <<"y">>
             /\ DOMAIN projects' = DOMAIN projects \ {selected.name}
             /\ \A k \in DOMAIN projects' : projects'[k] = projects[k]
             /\ store'.exists
             /\ read_projects(store') = projects'
             /\ exit'.effect = "deleted"]_vars

\* a project was deleted after two lines of narrowing, two others remain
C9_Witness ==
    /\ command = "Delete"
    /\ exit.effect = "deleted"
    /\ reads = 2
    /\ Cardinality(DOMAIN projects) = 2
    /\ read_projects(store) = projects

\* C10: every project name in the mapping and in the store is a non-empty
\* string.
C10_NamesNotEmpty ==
    /\ \A k \in DOMAIN projects : ~is_empty(k)
    /\ \A k \in DOMAIN read_projects(store) : ~is_empty(k)

====
